---- MODULE Spec2Model ----
(***************************************************************************)
(* A model of the portfolio site's browser scripts: the theme module and   *)
(* the scroll and section handlers (src/js/theme.js), the contact form     *)
(* with its toast and the scroll progress bar (src/js/main.js).  One       *)
(* action is one browser task: an event handler or a timer callback run to *)
(* completion, as the single UI thread runs it.                            *)
(***************************************************************************)
EXTENDS Naturals, Integers, Sequences, FiniteSets

VARIABLES
    \* ---- environment of the theme module
    storageAvailable,   \* FALSE: every localStorage read and write throws
    storedTheme,        \* localStorage['portfolio-theme'], NoValue when absent
    matchMediaAvailable,\* window.matchMedia exists
    systemDark,         \* (prefers-color-scheme: dark) matches
    markupTheme,        \* data-theme the served markup carries, NoValue when none
    \* ---- document state of the theme module
    pageState,          \* "loading" | "ready"
    dataTheme,          \* <html data-theme>, NoValue when absent
    metaContent,        \* <meta name="theme-color" content>
    themeTransition,    \* <html> carries the class 'theme-transition'
    listenerRegistered, \* the media query 'change' listener is attached
    themeEvents,        \* the 'themeChanged' events dispatched, detail.theme of each
    nToggles,           \* toggleTheme calls so far
    nLoads,             \* page loads completed so far
    lastThrew,          \* the most recent task ended by an uncaught exception
    lastGet,            \* what the most recent ThemeManager.getCurrentTheme() returned
    \* ---- contact form and toast
    fields,             \* the form's four named controls
    btnHTML,            \* .btn-submit innerHTML
    btnDisabled,        \* .btn-submit disabled
    toastShown,         \* #toast carries the class 'show'
    toastMessage,       \* .toast-message textContent
    toastType,          \* the icon the toast carries: "success" | "error"
    nSubmits,           \* submit events delivered so far
    lastTask,           \* the most recent task of the form: what ran, with its input
    effects,            \* the calls the most recent task of the form made, in order
    \* ---- the event loop
    timers,             \* pending setTimeout callbacks, in the order they were set
    \* ---- the viewport
    pageYOffset,        \* window.pageYOffset
    docHeight,          \* document.documentElement.scrollHeight - window.innerHeight
    \* ---- navbar and parallax scroll handlers
    parallaxActive,     \* initParallax attached its listener (hero, orbs, fine pointer)
    navTicking,         \* initNavbarScroll's ticking
    parTicking,         \* initParallax's ticking
    rafCallbacks,       \* callbacks requested for the next animation frame, in order
    lastScroll,         \* initNavbarScroll's lastScroll
    navScrolled,        \* .navbar carries the class 'scrolled'
    navTransform,       \* .navbar style.transform
    orbScroll,          \* the scrollY the orbs' transforms were computed from
    scrollsSinceFrame,  \* scroll events delivered since the last animation frame
    lastFrame,          \* what the last animation frame ran, and after how many scrolls
    \* ---- scroll progress bar
    inThrottle,         \* the inThrottle of the throttled scroll listener
    scrollPercent,      \* the scrollPercent last computed: <<numerator, denominator>>
    barWidth,           \* .scroll-progress-bar style.width, as a percentage
    burstCount,         \* scroll events of the burst under way
    burstUpdates,       \* progress updates the burst under way has produced
    burstLeft,          \* milliseconds left of the frame interval the burst began in
    lastDelivered,      \* position and height at the latest scroll event delivered,
                        \* <<>> when the layout has changed since
    \* ---- section highlight
    notified,           \* isIntersecting the observer last recorded, per section
    queuedEntries,      \* the entries the observer has queued for its callback
    activeLinks,        \* the hrefs of the nav links carrying the class 'active'
    lastEntries,        \* the entries of the most recent observer callback
    \* ---- project filters
    activeButtons,      \* the data-filter of the .filter-btn carrying 'active'
    itemDisplay,        \* style.display of each .project-item
    itemOpacity,        \* style.opacity of each .project-item
    lastFilter,         \* the data-filter of the button clicked last
    nClicks,            \* filter clicks so far
    \* ---- a debounced function
    debTimeout,         \* debounce's timeout: the id of the timer set last, 0 at first
    debCalls,           \* the arguments of the calls made so far, in order
    debInvoked,         \* the arguments func was invoked with, in order
    \* ---- typing animation
    roleIndex,          \* initTypingAnimation's roleIndex
    charIndex,          \* initTypingAnimation's charIndex
    isDeleting,         \* initTypingAnimation's isDeleting
    typingText,         \* .typing-text textContent
    \* ---- a counter
    counterAttr,        \* the counter's data-target attribute, NoValue when missing
    counterVisible,     \* the counter is at least half inside the viewport
    counterObserved,    \* the observer still observes the counter
    counterNotified,    \* isIntersecting the observer last recorded for it
    counterQueued,      \* the entries the observer has queued for its callback
    counterRaf,         \* the updateCounter callbacks requested for the next frame
    counterText,        \* the counter's textContent
    nAnimations,        \* the animations started on the counter
    nFrames             \* animation frames the counter's callbacks have run in

themeEnv  == <<storageAvailable, storedTheme, matchMediaAvailable, systemDark, markupTheme>>
themeDoc  == <<pageState, dataTheme, metaContent, themeTransition, listenerRegistered,
               themeEvents, nToggles, nLoads, lastThrew, lastGet>>
themeVars == <<themeEnv, themeDoc>>
formVars  == <<fields, btnHTML, btnDisabled, toastShown, toastMessage, toastType,
               nSubmits, lastTask, effects>>
viewport  == <<pageYOffset, docHeight>>
scrollVars == <<parallaxActive, navTicking, parTicking, rafCallbacks, lastScroll,
                navScrolled, navTransform, orbScroll, scrollsSinceFrame, lastFrame>>
progressVars == <<inThrottle, scrollPercent, barWidth, burstCount, burstUpdates,
                  burstLeft, lastDelivered>>
sectionVars == <<notified, queuedEntries, activeLinks, lastEntries>>
viewVars  == <<viewport, scrollVars, progressVars, sectionVars>>
filterVars == <<activeButtons, itemDisplay, itemOpacity, lastFilter, nClicks>>
debounceVars == <<debTimeout, debCalls, debInvoked>>
typingVars == <<roleIndex, charIndex, isDeleting, typingText>>
counterVars == <<counterAttr, counterVisible, counterObserved, counterNotified,
                 counterQueued, counterRaf, counterText, nAnimations, nFrames>>
widgetVars == <<filterVars, debounceVars, typingVars, counterVars>>
vars      == <<themeVars, formVars, timers, viewVars, widgetVars>>

-----------------------------------------------------------------------------
(* Bounds of the model *)

\* toggleTheme calls in one behaviour
MaxToggles == 3
\* page loads in one behaviour
MaxLoads == 3
\* submit events in one behaviour
MaxSubmits == 2
\* the step of the clock, in milliseconds
TickMs == 1500

-----------------------------------------------------------------------------
(* Timers: setTimeout(callback, delay).  A timer holds the milliseconds     *)
(* left before it is due; the event loop runs due timers by due time, and   *)
(* timers due at the same time in the order they were set.                  *)

Timer(kind, delay, arg) == [kind |-> kind, remaining |-> delay, arg |-> arg]

setTimeout(q, kind, delay, arg) == Append(q, Timer(kind, delay, arg))

IsDue(q, i) == q[i].remaining <= 0

\* the timer the event loop runs next: the earliest due, the first set among equals
NextDue(q) ==
    CHOOSE i \in 1..Len(q) :
        /\ IsDue(q, i)
        /\ \A j \in 1..Len(q) :
              IsDue(q, j) =>
                 \/ q[i].remaining < q[j].remaining
                 \/ (q[i].remaining = q[j].remaining /\ i <= j)

SomeDue(q) == \E i \in 1..Len(q) : IsDue(q, i)

RemoveAt(q, i) == SubSeq(q, 1, i - 1) \o SubSeq(q, i + 1, Len(q))

\* time passes: only while no timer is overdue, since a due timer runs first
TickTimers(q) == [i \in 1..Len(q) |-> [q[i] EXCEPT !.remaining = @ - TickMs]]

Tick ==
    /\ timers # <<>>
    /\ ~SomeDue(timers)
    /\ timers' = TickTimers(timers)
    /\ UNCHANGED <<themeVars, formVars, viewVars, widgetVars>>

-----------------------------------------------------------------------------
(* Theme module, src/js/theme.js *)

THEME_KEY   == "portfolio-theme"
THEME_DARK  == "dark"
THEME_LIGHT == "light"

\* getItem and getAttribute return null for what is absent
NoValue == "null"
\* the call ended by an exception instead of returning
Throws == "throws"

TransitionMs == 300

\* localStorage.getItem(THEME_KEY)
getItem(avail, stored) == IF avail THEN stored ELSE Throws

\* a plausible slip: the stored value is read under another key, so never found
getCurrentTheme_WrongKey(avail, stored, mm, sysDark) ==
    LET storedValue == getItem(avail, NoValue) IN
    IF storedValue = Throws THEN Throws
    ELSE IF storedValue # NoValue THEN storedValue
    ELSE IF mm /\ sysDark THEN THEME_DARK
    ELSE THEME_LIGHT

getCurrentTheme(avail, stored, mm, sysDark) ==
    LET storedValue == getItem(avail, stored) IN
    IF storedValue = Throws THEN Throws
    ELSE IF storedValue # NoValue THEN storedValue
    ELSE IF mm /\ sysDark THEN THEME_DARK
    ELSE THEME_LIGHT

MetaColor(theme) == IF theme = THEME_DARK THEN "#0f172a" ELSE "#ffffff"

applyTheme(theme) ==
    /\ dataTheme' = theme
    /\ metaContent' = MetaColor(theme)

\* saveTheme returns normally only when the write went through
saveTheme(theme) ==
    IF storageAvailable
    THEN storedTheme' = theme
    ELSE UNCHANGED storedTheme

\* a plausible slip: only the two themes are swapped, anything else is kept
NewTheme_SwapOnly(currentTheme) ==
    IF currentTheme = THEME_DARK THEN THEME_LIGHT
    ELSE IF currentTheme = THEME_LIGHT THEN THEME_DARK
    ELSE currentTheme

NewTheme(currentTheme) == IF currentTheme = THEME_DARK THEN THEME_LIGHT ELSE THEME_DARK

\* a click on #themeToggle, or ThemeManager.toggleTheme()
toggleTheme ==
    /\ pageState = "ready"
    /\ nToggles < MaxToggles
    /\ LET newTheme == NewTheme(dataTheme) IN
       /\ themeTransition' = TRUE
       /\ applyTheme(newTheme)
       /\ saveTheme(newTheme)
       /\ IF storageAvailable
          THEN /\ timers' = setTimeout(timers, "removeTransition", TransitionMs, NoValue)
               /\ themeEvents' = Append(themeEvents, newTheme)
               /\ lastThrew' = FALSE
          ELSE \* setItem threw: the rest of toggleTheme never runs
               /\ UNCHANGED <<timers, themeEvents>>
               /\ lastThrew' = TRUE
    /\ nToggles' = nToggles + 1
    /\ UNCHANGED <<storageAvailable, matchMediaAvailable, systemDark, markupTheme,
                   pageState, listenerRegistered, nLoads, lastGet, formVars, viewVars, widgetVars>>

\* the 300 ms timer set by toggleTheme
RemoveTransition ==
    /\ SomeDue(timers)
    /\ timers[NextDue(timers)].kind = "removeTransition"
    /\ themeTransition' = FALSE
    /\ timers' = RemoveAt(timers, NextDue(timers))
    /\ lastThrew' = FALSE
    /\ UNCHANGED <<themeEnv, pageState, dataTheme, metaContent, listenerRegistered,
                   themeEvents, nToggles, nLoads, lastGet, formVars, viewVars, widgetVars>>

\* initTheme, then listenForSystemThemeChanges, on DOMContentLoaded
initTheme ==
    LET theme == getCurrentTheme(storageAvailable, storedTheme,
                                 matchMediaAvailable, systemDark) IN
    IF theme = Throws
    THEN \* the exception leaves the handler: nothing after it runs
         /\ UNCHANGED <<dataTheme, metaContent>>
         /\ lastThrew' = TRUE
    ELSE /\ applyTheme(theme)
         /\ lastThrew' = FALSE

listenForSystemThemeChanges ==
    listenerRegistered' = (~lastThrew' /\ matchMediaAvailable)

DOMContentLoaded ==
    /\ pageState = "loading"
    /\ pageState' = "ready"
    /\ initTheme
    /\ listenForSystemThemeChanges
    /\ nLoads' = nLoads + 1
    /\ UNCHANGED <<themeEnv, themeTransition, themeEvents, nToggles, lastGet,
                   formVars, viewVars, widgetVars, timers>>

\* a plausible slip: the listener applies the system theme whatever is stored
NoManualPreference_Always(storedValue) == TRUE

\* the listener's test !localStorage.getItem(THEME_KEY)
NoManualPreference(storedValue) == storedValue = NoValue

\* a plausible slip: the listener also saves the theme it applies
SystemThemeChange_Saves ==
    /\ pageState = "ready"
    /\ matchMediaAvailable
    /\ systemDark' = ~systemDark
    /\ IF listenerRegistered
       THEN /\ IF NoManualPreference(getItem(storageAvailable, storedTheme))
               THEN applyTheme(IF systemDark' THEN THEME_DARK ELSE THEME_LIGHT)
               ELSE UNCHANGED <<dataTheme, metaContent>>
            /\ lastThrew' = (getItem(storageAvailable, storedTheme) = Throws)
       ELSE UNCHANGED <<dataTheme, metaContent, lastThrew>>
    /\ storedTheme' = IF listenerRegistered /\ storageAvailable /\ storedTheme = NoValue
                       THEN dataTheme' ELSE storedTheme
    /\ UNCHANGED <<storageAvailable, matchMediaAvailable, markupTheme,
                   pageState, themeTransition, listenerRegistered, themeEvents,
                   nToggles, nLoads, lastGet, formVars, viewVars, widgetVars, timers>>

\* the system colour scheme changes; the media query listener, if attached, runs
SystemThemeChange ==
    /\ pageState = "ready"
    /\ matchMediaAvailable
    /\ systemDark' = ~systemDark
    /\ IF listenerRegistered
       THEN /\ IF NoManualPreference(getItem(storageAvailable, storedTheme))
               THEN applyTheme(IF systemDark' THEN THEME_DARK ELSE THEME_LIGHT)
               ELSE UNCHANGED <<dataTheme, metaContent>>
            /\ lastThrew' = (getItem(storageAvailable, storedTheme) = Throws)
       ELSE UNCHANGED <<dataTheme, metaContent, lastThrew>>
    /\ UNCHANGED <<storageAvailable, storedTheme, matchMediaAvailable, markupTheme,
                   pageState, themeTransition, listenerRegistered, themeEvents,
                   nToggles, nLoads, lastGet, formVars, viewVars, widgetVars, timers>>

\* the page is loaded again: a fresh document, the same storage
Reload ==
    /\ pageState = "ready"
    /\ nLoads < MaxLoads
    /\ pageState' = "loading"
    /\ dataTheme' = markupTheme
    /\ metaContent' = "markup"
    /\ themeTransition' = FALSE
    /\ listenerRegistered' = FALSE
    /\ lastThrew' = FALSE
    /\ lastGet' = NoValue
    /\ timers' = <<>>
    /\ UNCHANGED <<themeEnv, themeEvents, nToggles, nLoads, formVars, viewVars, widgetVars>>

\* the user clears the site's storage
ClearStorage ==
    /\ storedTheme # NoValue
    /\ storedTheme' = NoValue
    /\ UNCHANGED <<storageAvailable, matchMediaAvailable, systemDark, markupTheme,
                   themeDoc, formVars, viewVars, widgetVars, timers>>

\* another script calls ThemeManager.saveTheme(theme)
ApiSaveTheme ==
    /\ pageState = "ready"
    /\ \E theme \in {THEME_LIGHT, THEME_DARK} :
          /\ storedTheme # theme
          /\ saveTheme(theme)
    /\ lastThrew' = ~storageAvailable
    /\ UNCHANGED <<storageAvailable, matchMediaAvailable, systemDark, markupTheme,
                   pageState, dataTheme, metaContent, themeTransition,
                   listenerRegistered, themeEvents, nToggles, nLoads, lastGet, formVars, viewVars, widgetVars,
                   timers>>

\* another script calls ThemeManager.getCurrentTheme()
ApiGetCurrentTheme ==
    /\ pageState = "ready"
    /\ lastGet' = getCurrentTheme(storageAvailable, storedTheme,
                                  matchMediaAvailable, systemDark)
    /\ lastThrew' = (lastGet' = Throws)
    /\ UNCHANGED <<themeEnv, pageState, dataTheme, metaContent, themeTransition,
                   listenerRegistered, themeEvents, nToggles, nLoads, formVars, viewVars, widgetVars, timers>>

-----------------------------------------------------------------------------
(* Toast and contact form, src/js/main.js *)

toastDuration == 3000
SubmitDelayMs == 1500

\* .btn-submit innerHTML as the markup serves it, and as the handler sets it
OriginalLabel == "Send Message"
SendingLabel  == "<span class=\"spinner-border spinner-border-sm\"></span> Sending..."

MsgFillAll      == "Please fill in all fields"
MsgInvalidEmail == "Please enter a valid email address"
MsgSuccess      == "Message sent successfully! I'll get back to you soon."
MsgFailed       == "Failed to send message. Please try again."

\* Field values are sequences of the characters "a", "@", "." and " ".

\* [^\s@]
NotSpaceNotAt(c) == c # " " /\ c # "@"

(* /^[^\s@]+@[^\s@]+\.[^\s@]+$/ as the automaton of the pattern: 0 before the   *)
(* local part, 1 inside it, 2 after '@', 3 inside the domain, 4 after the dot, *)
(* 5 inside the last part.  A '.' inside the domain may be the pattern's dot   *)
(* or one more domain character, so the matcher follows both.                  *)
RegexStep(states, c) ==
    UNION { CASE st = 0 -> IF NotSpaceNotAt(c) THEN {1} ELSE {}
              [] st = 1 -> IF NotSpaceNotAt(c) THEN {1}
                           ELSE IF c = "@" THEN {2} ELSE {}
              [] st = 2 -> IF NotSpaceNotAt(c) THEN {3} ELSE {}
              [] st = 3 -> IF c = "." THEN {3, 4}
                           ELSE IF NotSpaceNotAt(c) THEN {3} ELSE {}
              [] st = 4 -> IF NotSpaceNotAt(c) THEN {5} ELSE {}
              [] OTHER  -> IF NotSpaceNotAt(c) THEN {5} ELSE {}
          : st \in states }

RECURSIVE RegexRun(_, _)
RegexRun(states, str) ==
    IF str = <<>> THEN states
    ELSE RegexRun(RegexStep(states, Head(str)), Tail(str))

\* a plausible slip: the pattern without its dot and last part
emailRegexTest_NoDot(email) == RegexRun({0}, email) \cap {3, 5} # {}

\* emailRegex.test(data.email)
emailRegexTest(email) == 5 \in RegexRun({0}, email)

\* a plausible slip: the subject is left out of the check
AllFilled_NoSubject(data) ==
    data.name # <<>> /\ data.email # <<>> /\ data.message # <<>>

\* data.name && data.email && data.subject && data.message
AllFilled(data) ==
    data.name # <<>> /\ data.email # <<>> /\ data.subject # <<>> /\ data.message # <<>>

EmptyForm == [name |-> <<>>, email |-> <<>>, subject |-> <<>>, message |-> <<>>]

\* what the user types into the email control
EmailInputs ==
    { <<>>,
      <<"a", "@", "a", ".", "a">>,
      <<"a", "@", ".", ".", "a">>,
      <<"a", "@", "a">>,
      <<"a", ".", "a">>,
      <<"a", "@", "a", ".">>,
      <<"@", "a", ".", "a">>,
      <<"a", " ", "@", "a", ".", "a">>,
      <<"a", "@", "a", "@", "a", ".", "a">> }

TextInputs == { <<>>, <<"a">> }

\* what the user may type into the control named k
Inputs(k) == IF k = "email" THEN EmailInputs ELSE TextInputs

InitFormVars ==
    /\ fields = EmptyForm
    /\ btnHTML = OriginalLabel
    /\ btnDisabled = FALSE
    /\ toastShown = FALSE
    /\ toastMessage = ""
    /\ toastType = "success"
    /\ nSubmits = 0
    /\ lastTask = [op |-> "init", ok |-> TRUE]
    /\ effects = <<>>

\* a plausible slip: the toast is shown and no timer is set to hide it
showToast_NoTimer(q, message, type) ==
    /\ toastMessage' = message
    /\ toastType' = type
    /\ toastShown' = TRUE
    /\ timers' = q

\* showToast(message, type), called with the timers q the task leaves pending
showToast(q, message, type) ==
    /\ toastMessage' = message
    /\ toastType' = type
    /\ toastShown' = TRUE
    /\ timers' = setTimeout(q, "toastHide", toastDuration, NoValue)

\* the timer set by showToast
ToastHide ==
    /\ SomeDue(timers)
    /\ timers[NextDue(timers)].kind = "toastHide"
    /\ toastShown' = FALSE
    /\ timers' = RemoveAt(timers, NextDue(timers))
    /\ lastTask' = [op |-> "toastHide", ok |-> TRUE]
    /\ effects' = <<"hideToast">>
    /\ UNCHANGED <<themeVars, viewVars, widgetVars, fields, btnHTML, btnDisabled, toastMessage, toastType,
                   nSubmits>>

\* the user edits one of the form's controls
UserInput ==
    /\ \E k \in DOMAIN fields : \E v \in Inputs(k) :
          /\ v # fields[k]
          /\ fields' = [fields EXCEPT ![k] = v]
    /\ lastTask' = [op |-> "input", ok |-> TRUE]
    /\ effects' = <<>>
    /\ UNCHANGED <<themeVars, viewVars, widgetVars, btnHTML, btnDisabled, toastShown, toastMessage, toastType,
                   nSubmits, timers>>

\* the submit handler, from the event to its await
Submit ==
    /\ nSubmits < MaxSubmits
    /\ nSubmits' = nSubmits + 1
    /\ lastTask' = [op |-> "submit", ok |-> TRUE]
    /\ LET data == fields IN
       IF ~AllFilled(data)
       THEN /\ showToast(timers, MsgFillAll, "error")
            /\ effects' = <<"showToast">>
            /\ UNCHANGED <<btnHTML, btnDisabled>>
       ELSE IF ~emailRegexTest(data.email)
       THEN /\ showToast(timers, MsgInvalidEmail, "error")
            /\ effects' = <<"showToast">>
            /\ UNCHANGED <<btnHTML, btnDisabled>>
       ELSE LET originalText == btnHTML IN
            /\ btnHTML' = SendingLabel
            /\ btnDisabled' = TRUE
            /\ timers' = setTimeout(timers, "submitCall", SubmitDelayMs, originalText)
            /\ effects' = <<"setLabel", "disable", "await">>
            /\ UNCHANGED <<toastShown, toastMessage, toastType>>
    /\ UNCHANGED <<themeVars, viewVars, widgetVars, fields>>

\* a plausible slip: form.reset() moved out of the try block, so it always runs
tryCatch_ResetAlways(ok) ==
    IF ok
    THEN [message |-> MsgSuccess, type |-> "success", reset |-> TRUE]
    ELSE [message |-> MsgFailed, type |-> "error", reset |-> TRUE]

\* the try block after the await, or the catch block: the toast, and form.reset()
tryCatch(ok) ==
    IF ok
    THEN [message |-> MsgSuccess, type |-> "success", reset |-> TRUE]
    ELSE [message |-> MsgFailed, type |-> "error", reset |-> FALSE]

\* the handler from its await on: the awaited call settled, resolved or rejected
SubmitSettles(ok) ==
    /\ SomeDue(timers)
    /\ timers[NextDue(timers)].kind = "submitCall"
    /\ LET originalText == timers[NextDue(timers)].arg
           q == RemoveAt(timers, NextDue(timers))
           branch == tryCatch(ok)
       IN  /\ showToast(q, branch.message, branch.type)
           /\ fields' = IF branch.reset THEN EmptyForm ELSE fields
           /\ effects' = <<"showToast">>
                         \o (IF branch.reset THEN <<"reset">> ELSE <<>>)
                         \o <<"restoreLabel", "enable">>
           \* finally
           /\ btnHTML' = originalText
           /\ btnDisabled' = FALSE
    /\ lastTask' = [op |-> "settle", ok |-> ok]
    /\ UNCHANGED <<themeVars, viewVars, widgetVars>>

\* the simulated call of the source: a timer that resolves
SubmitResolves ==
    /\ SubmitSettles(TRUE)
    /\ UNCHANGED nSubmits

\* a call that fails, as a real endpoint can
SubmitRejects ==
    /\ SubmitSettles(FALSE)
    /\ UNCHANGED nSubmits

-----------------------------------------------------------------------------
(* The viewport.  Scroll positions and document heights are drawn from      *)
(* small sets; a position never exceeds the scrollable height.              *)

\* the scroll positions of the model
Positions == {0, 300, 600, 1200}

\* the values scrollHeight - innerHeight takes; 0: the document fits the viewport
DocHeights == {0, 1200}

\* scroll events between two animation frames
MaxScrollsPerFrame == 3
\* entries an observer holds for one callback
MaxQueued == 4
\* the interval between two animation frames, in milliseconds
FrameMs == 16
\* the step of the clock while scrolling, in milliseconds
ScrollTickMs == 8
\* the scroll events of one burst
BurstSize == 100

InitViewport ==
    /\ pageYOffset = 0
    /\ docHeight = 1200

-----------------------------------------------------------------------------
(* Navbar and parallax, src/js/theme.js: scroll listeners that request one  *)
(* animation frame callback and hold a ticking flag until it has run.       *)

\* a plausible slip: the listener requests a frame whatever the flag says
onScroll_NoFlag(ticking, q, callback) == Append(q, callback)

\* the scroll listener of initNavbarScroll and of initParallax
onScroll(ticking, q, callback) == IF ~ticking THEN Append(q, callback) ELSE q

\* .hero-section offsetHeight
heroHeight == 700

\* what the callbacks of a frame read and write
FrameState ==
    [lastScroll |-> lastScroll, navScrolled |-> navScrolled,
     navTransform |-> navTransform, navTicking |-> navTicking,
     parTicking |-> parTicking, orbScroll |-> orbScroll, nav |-> 0, par |-> 0]

updateNavbar(st) ==
    LET currentScroll == pageYOffset
    IN  [st EXCEPT !.navScrolled = currentScroll > 50,
                   !.navTransform = IF currentScroll > st.lastScroll /\ currentScroll > 500
                                    THEN "translateY(-100%)" ELSE "translateY(0)",
                   !.lastScroll = currentScroll,
                   !.navTicking = FALSE,
                   !.nav = @ + 1]

updateParallax(st) ==
    LET scrollY == pageYOffset
    IN  [st EXCEPT !.orbScroll = IF scrollY < heroHeight THEN scrollY ELSE @,
                   !.parTicking = FALSE,
                   !.par = @ + 1]

\* the browser runs the frame's callbacks in the order they were requested
RECURSIVE RunCallbacks(_, _)
RunCallbacks(st, q) ==
    IF q = <<>> THEN st
    ELSE RunCallbacks(IF Head(q) = "updateNavbar" THEN updateNavbar(st)
                      ELSE updateParallax(st), Tail(q))

InitScrollVars ==
    /\ parallaxActive = TRUE
    /\ navTicking = FALSE
    /\ parTicking = FALSE
    /\ rafCallbacks = <<>>
    /\ lastScroll = 0
    /\ navScrolled = FALSE
    /\ navTransform = ""
    /\ orbScroll = 0
    /\ scrollsSinceFrame = 0
    /\ lastFrame = [scrolls |-> 0, nav |-> 0, par |-> 0]

\* a scroll event: the listeners of initParallax and initNavbarScroll run, in
\* the order init attached them
Scroll(y) ==
    /\ y <= docHeight
    /\ scrollsSinceFrame < MaxScrollsPerFrame
    /\ pageYOffset' = y
    /\ scrollsSinceFrame' = scrollsSinceFrame + 1
    /\ LET q == IF parallaxActive
                THEN onScroll(parTicking, rafCallbacks, "updateParallax")
                ELSE rafCallbacks
       IN  /\ rafCallbacks' = onScroll(navTicking, q, "updateNavbar")
           /\ parTicking' = (parallaxActive \/ parTicking)
           /\ navTicking' = TRUE
    /\ UNCHANGED <<docHeight, parallaxActive, lastScroll, navScrolled, navTransform,
                   orbScroll, lastFrame>>
    /\ UNCHANGED <<themeVars, widgetVars, formVars, timers, progressVars, sectionVars>>

\* the browser renders a frame: the callbacks requested since the last one run
AnimationFrame ==
    /\ LET st == RunCallbacks(FrameState, rafCallbacks)
       IN  /\ lastScroll' = st.lastScroll
           /\ navScrolled' = st.navScrolled
           /\ navTransform' = st.navTransform
           /\ navTicking' = st.navTicking
           /\ parTicking' = st.parTicking
           /\ orbScroll' = st.orbScroll
           /\ lastFrame' = [scrolls |-> scrollsSinceFrame, nav |-> st.nav, par |-> st.par]
    /\ rafCallbacks' = <<>>
    /\ scrollsSinceFrame' = 0
    /\ UNCHANGED <<viewport, parallaxActive>>
    /\ UNCHANGED <<themeVars, widgetVars, formVars, timers, progressVars, sectionVars>>

-----------------------------------------------------------------------------
(* Scroll progress bar, src/js/main.js: a scroll listener throttled to one  *)
(* call in 50 ms.                                                           *)

\* the limit initScrollProgress passes to throttle
ScrollThrottleMs == 50

\* (scrollTop / docHeight) * 100 as an exact fraction; a zero denominator is
\* the NaN or Infinity the division yields
ScrollPercentOf(scrollTop, height) == <<scrollTop * 100, height>>

IsNumber(p) == p[2] # 0

\* style.width takes a percentage that is a number and not negative; the
\* assignment of anything else is ignored and the width stays as it was
SetWidth(old, p) == IF IsNumber(p) /\ p[1] * p[2] >= 0 THEN p ELSE old

InitProgressVars ==
    /\ inThrottle = FALSE
    /\ scrollPercent = <<>>
    /\ barWidth = <<>>
    /\ burstCount = 0
    /\ burstUpdates = 0
    /\ burstLeft = 0
    /\ lastDelivered = <<>>

\* a plausible slip: the call goes through whatever inThrottle says
throttle_NoCheck(closed) == TRUE

\* throttle lets a call through when inThrottle is not set
throttle(closed) == ~closed

\* a scroll event: the throttled listener of initScrollProgress runs
ScrollProgress(y) ==
    /\ y <= docHeight
    /\ burstCount < BurstSize
    /\ pageYOffset' = y
    /\ burstCount' = burstCount + 1
    /\ burstLeft' = IF burstCount = 0 THEN FrameMs ELSE burstLeft
    /\ lastDelivered' = <<y, docHeight>>
    /\ IF throttle(inThrottle)
       THEN /\ scrollPercent' = ScrollPercentOf(y, docHeight)
            /\ barWidth' = SetWidth(barWidth, scrollPercent')
            /\ inThrottle' = TRUE
            /\ timers' = setTimeout(timers, "throttleEnd", ScrollThrottleMs, NoValue)
            /\ burstUpdates' = burstUpdates + 1
       ELSE UNCHANGED <<scrollPercent, barWidth, inThrottle, timers, burstUpdates>>
    /\ UNCHANGED <<docHeight, themeVars, widgetVars, formVars, scrollVars, sectionVars>>

\* the timer throttle set runs: () => inThrottle = false
ThrottleEnd ==
    /\ SomeDue(timers)
    /\ timers[NextDue(timers)].kind = "throttleEnd"
    /\ inThrottle' = FALSE
    /\ timers' = RemoveAt(timers, NextDue(timers))
    /\ UNCHANGED <<scrollPercent, barWidth, burstCount, burstUpdates, burstLeft,
                   lastDelivered>>
    /\ UNCHANGED <<viewport, themeVars, widgetVars, formVars, scrollVars, sectionVars>>

\* time passes while scrolling; a burst is over when its frame interval is
ScrollTick ==
    /\ ~SomeDue(timers)
    /\ timers # <<>> \/ burstCount > 0
    /\ timers' = [i \in 1..Len(timers) |->
                     [timers[i] EXCEPT !.remaining = @ - ScrollTickMs]]
    /\ IF burstLeft - ScrollTickMs > 0
       THEN /\ burstLeft' = burstLeft - ScrollTickMs
            /\ UNCHANGED <<burstCount, burstUpdates>>
       ELSE /\ burstLeft' = 0
            /\ burstCount' = 0
            /\ burstUpdates' = 0
    /\ UNCHANGED <<inThrottle, scrollPercent, barWidth, lastDelivered>>
    /\ UNCHANGED <<viewport, themeVars, widgetVars, formVars, scrollVars, sectionVars>>

\* the content or the window changes height; the scroll position is clamped
Resize(h) ==
    /\ h # docHeight
    /\ docHeight' = h
    /\ pageYOffset' = IF pageYOffset > h THEN h ELSE pageYOffset
    /\ lastDelivered' = <<>>
    /\ UNCHANGED <<inThrottle, scrollPercent, barWidth, burstCount, burstUpdates,
                   burstLeft>>
    /\ UNCHANGED <<themeVars, widgetVars, formVars, timers, scrollVars, sectionVars>>

-----------------------------------------------------------------------------
(* Section highlight, src/js/theme.js: an IntersectionObserver whose root   *)
(* is narrowed to the horizontal line through the middle of the viewport.   *)

\* section[id] elements in document order, as observer.observe met them
Sections == <<"home", "about", "contact">>

\* where each section lies in the document
SectionBox(s) == IF s = "home" THEN [top |-> 0, bottom |-> 700]
                 ELSE IF s = "about" THEN [top |-> 700, bottom |-> 1100]
                 ELSE [top |-> 1000, bottom |-> 1300]

\* `#${id}`
Href(id) == <<"#", id>>

\* .nav-link[href^="#"]: one link per section and one that names no section
NavLinks ==
    {Href("home"), Href("about"), Href("contact"), Href("blog")}

\* the line through the middle of the viewport (rootMargin -50% 0px -50% 0px)
CentreLine(y) == y + 400

\* threshold 0: a section touching the line intersects
IsIntersecting(s, y) ==
    SectionBox(s).top <= CentreLine(y) /\ CentreLine(y) <= SectionBox(s).bottom

Reported(b) == IF b THEN "true" ELSE "false"

\* the entries the observer queues when it looks at the sections: those whose
\* state is not the one it last recorded, in the order they are observed
Entries(y, seen) ==
    LET all == [i \in 1..Len(Sections) |->
                   [target |-> Sections[i],
                    isIntersecting |-> IsIntersecting(Sections[i], y)]]
        Changed(e) == seen[e.target] # Reported(e.isIntersecting)
    IN  SelectSeq(all, Changed)

\* a plausible slip: 'active' is added to the matching link and removed nowhere
onEntry_NoRemove(active, entry) ==
    IF entry.isIntersecting
    THEN active \cup {link \in NavLinks : link = Href(entry.target)}
    ELSE active

\* the body of entries.forEach: an intersecting entry takes 'active' off every
\* link and puts it on the link whose href names the entry's section
onEntry(active, entry) ==
    IF entry.isIntersecting
    THEN {link \in NavLinks : link = Href(entry.target)}
    ELSE active

RECURSIVE forEachEntry(_, _)
forEachEntry(active, entries) ==
    IF entries = <<>> THEN active
    ELSE forEachEntry(onEntry(active, Head(entries)), Tail(entries))

InitSectionVars ==
    /\ notified = [i \in {"home", "about", "contact"} |-> "none"]
    /\ queuedEntries = <<>>
    /\ activeLinks = {}
    /\ lastEntries = <<>>

\* the browser updates the intersection observations, as it does once a frame:
\* the observer queues an entry for every section that has changed state
UpdateObservations ==
    /\ Entries(pageYOffset, notified) # <<>>
    /\ Len(queuedEntries) + Len(Entries(pageYOffset, notified)) <= MaxQueued
    /\ queuedEntries' = queuedEntries \o Entries(pageYOffset, notified)
    /\ notified' = [s \in DOMAIN notified |-> Reported(IsIntersecting(s, pageYOffset))]
    /\ UNCHANGED <<activeLinks, lastEntries>>
    /\ UNCHANGED <<viewport, themeVars, widgetVars, formVars, timers, scrollVars, progressVars>>

\* the observer's callback runs with the entries queued for it
IntersectionCallback ==
    /\ queuedEntries # <<>>
    /\ lastEntries' = queuedEntries
    /\ activeLinks' = forEachEntry(activeLinks, queuedEntries)
    /\ queuedEntries' = <<>>
    /\ UNCHANGED notified
    /\ UNCHANGED <<viewport, themeVars, widgetVars, formVars, timers, scrollVars, progressVars>>

\* the viewport moves over the sections
ViewportMoves(y) ==
    /\ y # pageYOffset
    /\ y <= docHeight
    /\ pageYOffset' = y
    /\ UNCHANGED <<docHeight, themeVars, widgetVars, formVars, timers, scrollVars, progressVars,
                   sectionVars>>

-----------------------------------------------------------------------------
(* A finer clock for the handlers whose timers run for tens of milliseconds *)

\* the step of the finer clock, in milliseconds
ShortTickMs == 25

ShortTick ==
    /\ timers # <<>>
    /\ ~SomeDue(timers)
    /\ timers' = [i \in 1..Len(timers) |->
                     [timers[i] EXCEPT !.remaining = @ - ShortTickMs]]
    /\ UNCHANGED <<themeVars, formVars, viewVars, widgetVars>>

-----------------------------------------------------------------------------
(* Project filters, src/js/theme.js *)

\* filter clicks in one behaviour
MaxClicks == 3

\* the data-filter of the .filter-btn buttons
Filters == {"all", "web", "api"}

\* the .project-item elements, in document order
projectItems == <<"item1", "item2">>

Items == {projectItems[i] : i \in 1..Len(projectItems)}

\* data-category of each item
Category(item) == IF item = "item1" THEN "web" ELSE "api"

FilterShowMs == 50
FilterHideMs == 400

\* a plausible slip: an item is shown only when its category is the filter
Matches_NoAll(filter, item) == Category(item) = filter

\* filter === 'all' || category === filter
Matches(filter, item) == filter = "all" \/ Category(item) = filter

\* the timers one click sets, one per item in document order
RECURSIVE FilterTimers(_, _, _)
FilterTimers(q, filter, items) ==
    IF items = <<>> THEN q
    ELSE FilterTimers(
             IF Matches(filter, Head(items))
             THEN setTimeout(q, "filterShow", FilterShowMs, Head(items))
             ELSE setTimeout(q, "filterHide", FilterHideMs, Head(items)),
             filter, Tail(items))

InitFilterVars ==
    /\ activeButtons = {"all"}
    /\ itemDisplay = [i \in Items |-> ""]
    /\ itemOpacity = [i \in Items |-> ""]
    /\ lastFilter = NoValue
    /\ nClicks = 0

\* a click on the button whose data-filter is filter
FilterClick(filter) ==
    /\ nClicks < MaxClicks
    /\ nClicks' = nClicks + 1
    /\ lastFilter' = filter
    /\ activeButtons' = (activeButtons \ Filters) \cup {filter}
    /\ itemDisplay' = [i \in Items |->
                          IF Matches(filter, i) THEN "block" ELSE itemDisplay[i]]
    /\ itemOpacity' = [i \in Items |-> "0"]
    /\ timers' = FilterTimers(timers, filter, projectItems)
    /\ UNCHANGED <<themeVars, formVars, viewVars, debounceVars, typingVars, counterVars>>

\* setTimeout callback of a matching item: animate in
FilterShow ==
    /\ SomeDue(timers)
    /\ timers[NextDue(timers)].kind = "filterShow"
    /\ itemOpacity' = [itemOpacity EXCEPT ![timers[NextDue(timers)].arg] = "1"]
    /\ timers' = RemoveAt(timers, NextDue(timers))
    /\ UNCHANGED <<activeButtons, itemDisplay, lastFilter, nClicks>>
    /\ UNCHANGED <<themeVars, formVars, viewVars, debounceVars, typingVars, counterVars>>

\* setTimeout callback of an item that does not match: display none
FilterHide ==
    /\ SomeDue(timers)
    /\ timers[NextDue(timers)].kind = "filterHide"
    /\ itemDisplay' = [itemDisplay EXCEPT ![timers[NextDue(timers)].arg] = "none"]
    /\ timers' = RemoveAt(timers, NextDue(timers))
    /\ UNCHANGED <<activeButtons, itemOpacity, lastFilter, nClicks>>
    /\ UNCHANGED <<themeVars, formVars, viewVars, debounceVars, typingVars, counterVars>>

-----------------------------------------------------------------------------
(* debounce, src/js/main.js, as PortfolioUtils hands it out: a function     *)
(* debounced with CONFIG.debounceDelay.  A timer's id is the number of the  *)
(* call that set it.                                                        *)

\* calls of the debounced function in one behaviour
MaxDebCalls == 3

\* CONFIG.debounceDelay
debounceDelay == 100

\* the arguments a call may carry
Args == {"a", "b"}

\* a plausible slip: the timer is left pending
clearTimeout_Keeps(q, id) == q

\* clearTimeout(id): the timer with that id, if still pending, is dropped
clearTimeout(q, id) ==
    LET Other(t) == ~(t.kind = "later" /\ t.arg.id = id)
    IN  SelectSeq(q, Other)

InitDebounceVars ==
    /\ debTimeout = 0
    /\ debCalls = <<>>
    /\ debInvoked = <<>>

\* executedFunction(...args)
executedFunction(args) ==
    /\ Len(debCalls) < MaxDebCalls
    /\ debCalls' = Append(debCalls, args)
    /\ timers' = setTimeout(clearTimeout(timers, debTimeout), "later", debounceDelay,
                            [id |-> Len(debCalls) + 1, args |-> args])
    /\ debTimeout' = Len(debCalls) + 1
    /\ UNCHANGED debInvoked
    /\ UNCHANGED <<themeVars, formVars, viewVars, filterVars, typingVars, counterVars>>

\* later: clearTimeout(timeout); func(...args)
later ==
    /\ SomeDue(timers)
    /\ timers[NextDue(timers)].kind = "later"
    /\ timers' = clearTimeout(RemoveAt(timers, NextDue(timers)), debTimeout)
    /\ debInvoked' = Append(debInvoked, timers[NextDue(timers)].arg.args)
    /\ UNCHANGED <<debTimeout, debCalls>>
    /\ UNCHANGED <<themeVars, formVars, viewVars, filterVars, typingVars, counterVars>>

-----------------------------------------------------------------------------
(* Typing animation, src/js/theme.js *)

\* the roles, a sequence of characters each
roles ==
    <<
        <<"W", "e", "b", " ", "D", "e", "v", "e", "l", "o", "p", "e", "r">>,
        <<"P", "H", "P", " ", "&", " ", "L", "a", "r", "a", "v", "e", "l",
          " ", "E", "x", "p", "e", "r", "t">>,
        <<"A", "P", "I", " ", "D", "e", "v", "e", "l", "o", "p", "e", "r">>,
        <<"F", "u", "l", "l", " ", "S", "t", "a", "c", "k", " ", "D", "e",
          "v", "e", "l", "o", "p", "e", "r">>
    >>

\* CONFIG.typingSpeed
typingSpeed == 50
\* CONFIG.typingDelay
typingDelay == 1000
\* the pause before the next role is typed
NextRoleDelay == 500

\* a plausible slip: the whole string is shown
substring_Whole(str, start, end) == str

\* String.prototype.substring: both ends are clamped to the string
substring(str, start, end) ==
    LET Clamp(n) == IF n < 0 THEN 0 ELSE IF n > Len(str) THEN Len(str) ELSE n
        from == IF Clamp(start) <= Clamp(end) THEN Clamp(start) ELSE Clamp(end)
        to == IF Clamp(start) <= Clamp(end) THEN Clamp(end) ELSE Clamp(start)
    IN  SubSeq(str, from + 1, to)

\* a plausible slip: every other role is skipped
NextRole_Skip(index) == (index + 2) % Len(roles)

\* (roleIndex + 1) % roles.length
NextRole(index) == (index + 1) % Len(roles)

InitTypingVars ==
    /\ roleIndex = 0
    /\ charIndex = 0
    /\ isDeleting = FALSE
    /\ typingText = <<>>

\* type(), run by its timer; roles[roleIndex] counts from 0
type ==
    /\ SomeDue(timers)
    /\ timers[NextDue(timers)].kind = "type"
    /\ LET currentRole == roles[roleIndex + 1]
           typed == IF isDeleting THEN charIndex - 1 ELSE charIndex + 1
           full == ~isDeleting /\ typed = Len(currentRole)
           empty == isDeleting /\ typed = 0
           typeSpeed == IF full THEN typingDelay
                        ELSE IF empty THEN NextRoleDelay
                        ELSE IF isDeleting THEN typingSpeed \div 2 ELSE typingSpeed
       IN  /\ typingText' = substring(currentRole, 0, typed)
           /\ charIndex' = typed
           /\ isDeleting' = IF full THEN TRUE ELSE IF empty THEN FALSE ELSE isDeleting
           /\ roleIndex' = IF empty THEN NextRole(roleIndex) ELSE roleIndex
           /\ timers' = setTimeout(RemoveAt(timers, NextDue(timers)), "type", typeSpeed,
                                   NoValue)
    /\ UNCHANGED <<themeVars, formVars, viewVars, filterVars, debounceVars, counterVars>>

-----------------------------------------------------------------------------
(* Counters, src/js/theme.js: one .counter element, its observer and the    *)
(* frame loop that counts up to data-target.  Numbers are exact; a number   *)
(* is a record so that NaN is a value beside the integers.                  *)

\* CONFIG.counterDuration
counterDuration == 2000

Num(n) == [nan |-> FALSE, v |-> n]
NaN == [nan |-> TRUE, v |-> 0]

\* the data-target attributes of the model; NoValue: the attribute is missing
CounterAttrs == {NoValue, "250", "3", "0", "-5"}

\* parseInt of the attribute
parseInt(attr) ==
    IF attr = "250" THEN Num(250)
    ELSE IF attr = "3" THEN Num(3)
    ELSE IF attr = "0" THEN Num(0)
    ELSE IF attr = "-5" THEN Num(0 - 5)
    ELSE NaN

\* the frame time the step is computed for
CounterStepMs == 16

\* duration / 16: current is target * k / CounterFrames after k steps
CounterFrames == counterDuration \div CounterStepMs

\* Math.floor(target * k / CounterFrames)
FloorCurrent(target, k) ==
    IF target.v * k >= 0 THEN (target.v * k) \div CounterFrames
    ELSE 0 - ((CounterFrames - 1 - target.v * k) \div CounterFrames)

\* current < target after k steps; false when the target is NaN
CurrentBelowTarget(target, k) ==
    ~target.nan /\ target.v * k < target.v * CounterFrames

\* updateCounter, called with k - 1 steps done: st holds the text and the
\* callbacks requested for the next frame
updateCounter(st, target, k) ==
    IF CurrentBelowTarget(target, k)
    THEN [st EXCEPT !.text = Num(FloorCurrent(target, k)), !.raf = Append(@, k)]
    ELSE [st EXCEPT !.text = target]

\* the body of the observer callback's entries.forEach
RECURSIVE forEachCounterEntry(_, _, _)
forEachCounterEntry(st, target, entries) ==
    IF entries = <<>> THEN st
    ELSE forEachCounterEntry(
             IF Head(entries).isIntersecting
             THEN [updateCounter(st, target, 1) EXCEPT !.started = @ + 1,
                                                        !.observed = FALSE]
             ELSE st,
             target, Tail(entries))

\* the updateCounter callbacks of one frame, in the order they were requested
RECURSIVE RunCounterFrame(_, _, _)
RunCounterFrame(st, target, q) ==
    IF q = <<>> THEN st
    ELSE RunCounterFrame(updateCounter(st, target, Head(q) + 1), target, Tail(q))

InitCounterVars ==
    /\ counterAttr = NoValue
    /\ counterVisible = FALSE
    /\ counterObserved = TRUE
    /\ counterNotified = "none"
    /\ counterQueued = <<>>
    /\ counterRaf = <<>>
    /\ counterText = Num(0)
    /\ nAnimations = 0
    /\ nFrames = 0

\* the counter scrolls into or out of the viewport
CounterMoves ==
    /\ counterVisible' = ~counterVisible
    /\ UNCHANGED <<counterAttr, counterObserved, counterNotified, counterQueued,
                   counterRaf, counterText, nAnimations, nFrames>>
    /\ UNCHANGED <<themeVars, formVars, timers, viewVars, filterVars, debounceVars,
                   typingVars>>

\* the browser updates the intersection observations, as it does once a frame
CounterObservation ==
    /\ counterObserved
    /\ counterNotified # Reported(counterVisible)
    /\ Len(counterQueued) < MaxQueued
    /\ counterQueued' = Append(counterQueued, [isIntersecting |-> counterVisible])
    /\ counterNotified' = Reported(counterVisible)
    /\ UNCHANGED <<counterAttr, counterVisible, counterObserved, counterRaf, counterText,
                   nAnimations, nFrames>>
    /\ UNCHANGED <<themeVars, formVars, timers, viewVars, filterVars, debounceVars,
                   typingVars>>

\* the observer's callback runs with the entries queued for it
CounterCallback ==
    /\ counterQueued # <<>>
    /\ LET st == forEachCounterEntry(
                     [text |-> counterText, raf |-> counterRaf, started |-> nAnimations,
                      observed |-> counterObserved],
                     parseInt(counterAttr), counterQueued)
       IN  /\ counterText' = st.text
           /\ counterRaf' = st.raf
           /\ nAnimations' = st.started
           /\ counterObserved' = st.observed
    /\ counterQueued' = <<>>
    /\ UNCHANGED <<counterAttr, counterVisible, counterNotified, nFrames>>
    /\ UNCHANGED <<themeVars, formVars, timers, viewVars, filterVars, debounceVars,
                   typingVars>>

\* the browser renders a frame: the updateCounter callbacks requested run
CounterFrame ==
    /\ counterRaf # <<>>
    /\ LET st == RunCounterFrame(
                     [text |-> counterText, raf |-> <<>>, started |-> nAnimations,
                      observed |-> counterObserved],
                     parseInt(counterAttr), counterRaf)
       IN  /\ counterText' = st.text
           /\ counterRaf' = st.raf
    /\ nFrames' = nFrames + 1
    /\ UNCHANGED <<counterAttr, counterVisible, counterObserved, counterNotified,
                   counterQueued, nAnimations>>
    /\ UNCHANGED <<themeVars, formVars, timers, viewVars, filterVars, debounceVars,
                   typingVars>>

InitWidgetVars ==
    /\ InitFilterVars
    /\ InitDebounceVars
    /\ InitTypingVars
    /\ InitCounterVars

InitViewVars ==
    /\ InitViewport
    /\ InitScrollVars
    /\ InitProgressVars
    /\ InitSectionVars
    /\ InitWidgetVars

-----------------------------------------------------------------------------
(* Specifications *)

\* the theme script has run while the document was loading
InitTheme ==
    /\ storageAvailable \in BOOLEAN
    /\ storedTheme \in {NoValue, THEME_LIGHT, THEME_DARK}
    /\ (~storageAvailable => storedTheme = NoValue)
    /\ matchMediaAvailable \in BOOLEAN
    /\ systemDark \in BOOLEAN
    /\ (~matchMediaAvailable => ~systemDark)
    /\ markupTheme \in {NoValue, THEME_LIGHT, THEME_DARK}
    /\ pageState = "loading"
    /\ dataTheme = markupTheme
    /\ metaContent = "markup"
    /\ themeTransition = FALSE
    /\ listenerRegistered = FALSE
    /\ themeEvents = <<>>
    /\ nToggles = 0
    /\ nLoads = 0
    /\ lastThrew = FALSE
    /\ lastGet = NoValue
    /\ InitFormVars
    /\ timers = <<>>
    /\ InitViewVars

NextTheme ==
    \/ DOMContentLoaded
    \/ toggleTheme
    \/ RemoveTransition
    \/ SystemThemeChange
    \/ Reload
    \/ ClearStorage
    \/ Tick

\* the theme module under clicks, system changes, reloads and cleared storage
SpecTheme == InitTheme /\ [][NextTheme]_vars

NextThemeApi ==
    \/ NextTheme
    \/ ApiSaveTheme
    \/ ApiGetCurrentTheme

\* the same, with other scripts calling window.ThemeManager
SpecThemeApi == InitTheme /\ [][NextThemeApi]_vars


\* the theme module is idle: its script ran, the page is loaded
InitThemeVars ==
    /\ storageAvailable = TRUE
    /\ storedTheme = NoValue
    /\ matchMediaAvailable = TRUE
    /\ systemDark = FALSE
    /\ markupTheme = NoValue
    /\ pageState = "ready"
    /\ dataTheme = THEME_LIGHT
    /\ metaContent = MetaColor(THEME_LIGHT)
    /\ themeTransition = FALSE
    /\ listenerRegistered = TRUE
    /\ themeEvents = <<>>
    /\ nToggles = 0
    /\ nLoads = 1
    /\ lastThrew = FALSE
    /\ lastGet = NoValue

\* initContactForm has attached the submit handler
InitForm ==
    /\ InitThemeVars
    /\ InitFormVars
    /\ timers = <<>>
    /\ InitViewVars

NextForm ==
    \/ UserInput
    \/ Submit
    \/ SubmitResolves
    \/ ToastHide
    \/ Tick

\* the contact form as the source has it: the simulated call always resolves
SpecForm == InitForm /\ [][NextForm]_vars

NextFormCall ==
    \/ NextForm
    \/ SubmitRejects

\* the contact form with a call that may fail; time passes and due timers run
SpecFormCall ==
    /\ InitForm
    /\ [][NextFormCall]_vars
    /\ WF_vars(Tick)
    /\ WF_vars(SubmitResolves \/ SubmitRejects)
    /\ WF_vars(ToastHide)

\* initParallax and initNavbarScroll have run; hero, orbs and a fine pointer
\* may or may not have been there
InitScroll ==
    /\ InitThemeVars
    /\ InitFormVars
    /\ timers = <<>>
    /\ InitViewport
    /\ parallaxActive \in BOOLEAN
    /\ navTicking = FALSE
    /\ parTicking = FALSE
    /\ rafCallbacks = <<>>
    /\ lastScroll = 0
    /\ navScrolled = FALSE
    /\ navTransform = ""
    /\ orbScroll = 0
    /\ scrollsSinceFrame = 0
    /\ lastFrame = [scrolls |-> 0, nav |-> 0, par |-> 0]
    /\ InitProgressVars
    /\ InitSectionVars
    /\ InitWidgetVars

NextScroll ==
    \/ \E y \in Positions : Scroll(y)
    \/ AnimationFrame

SpecScroll == InitScroll /\ [][NextScroll]_vars

\* initScrollProgress has run, on a document of either height
InitProgress ==
    /\ InitThemeVars
    /\ InitFormVars
    /\ timers = <<>>
    /\ pageYOffset = 0
    /\ docHeight \in DocHeights
    /\ InitScrollVars
    /\ InitProgressVars
    /\ InitSectionVars
    /\ InitWidgetVars

NextProgress ==
    \/ \E y \in Positions : ScrollProgress(y)
    \/ ThrottleEnd
    \/ ScrollTick
    \/ \E h \in DocHeights : Resize(h)

SpecProgress == InitProgress /\ [][NextProgress]_vars

\* time passes and a timer that is due runs
SpecProgressFair ==
    /\ SpecProgress
    /\ WF_vars(ScrollTick)
    /\ WF_vars(ThrottleEnd)

\* initSectionHighlight has run and observes every section
InitSections ==
    /\ InitThemeVars
    /\ InitFormVars
    /\ timers = <<>>
    /\ pageYOffset \in Positions
    /\ docHeight = 1200
    /\ InitScrollVars
    /\ InitProgressVars
    /\ InitSectionVars
    /\ InitWidgetVars

NextSections ==
    \/ UpdateObservations
    \/ IntersectionCallback
    \/ \E y \in Positions : ViewportMoves(y)

SpecSections == InitSections /\ [][NextSections]_vars

\* initProjectFilters has attached the click handlers
InitFilters ==
    /\ InitThemeVars
    /\ InitFormVars
    /\ timers = <<>>
    /\ InitViewVars

NextFilters ==
    \/ \E f \in Filters : FilterClick(f)
    \/ FilterShow
    \/ FilterHide
    \/ ShortTick

SpecFilters == InitFilters /\ [][NextFilters]_vars

\* a function has been debounced and not called yet
InitDebounce ==
    /\ InitThemeVars
    /\ InitFormVars
    /\ timers = <<>>
    /\ InitViewVars

NextDebounce ==
    \/ \E a \in Args : executedFunction(a)
    \/ later
    \/ ShortTick

\* time passes and a timer that is due runs
SpecDebounce ==
    /\ InitDebounce
    /\ [][NextDebounce]_vars
    /\ WF_vars(ShortTick)
    /\ WF_vars(later)

\* initTypingAnimation has set the timer of the first step
InitTyping ==
    /\ InitThemeVars
    /\ InitFormVars
    /\ timers = <<Timer("type", typingDelay, NoValue)>>
    /\ InitViewVars

NextTyping ==
    \/ type
    \/ ShortTick

\* time passes and a timer that is due runs
SpecTyping ==
    /\ InitTyping
    /\ [][NextTyping]_vars
    /\ WF_vars(ShortTick)
    /\ WF_vars(type)

\* initCounters observes a counter carrying any of the data-target attributes
InitCounters ==
    /\ InitThemeVars
    /\ InitFormVars
    /\ timers = <<>>
    /\ InitViewport
    /\ InitScrollVars
    /\ InitProgressVars
    /\ InitSectionVars
    /\ InitFilterVars
    /\ InitDebounceVars
    /\ InitTypingVars
    /\ counterAttr \in CounterAttrs
    /\ counterVisible \in BOOLEAN
    /\ counterObserved = TRUE
    /\ counterNotified = "none"
    /\ counterQueued = <<>>
    /\ counterRaf = <<>>
    /\ counterText = Num(0)
    /\ nAnimations = 0
    /\ nFrames = 0

NextCounters ==
    \/ CounterMoves
    \/ CounterObservation
    \/ CounterCallback
    \/ CounterFrame

SpecCounters == InitCounters /\ [][NextCounters]_vars

-----------------------------------------------------------------------------
(* Properties of the contact form *)

\* the submissions whose call has not settled yet
PendingCalls(q) == {i \in 1..Len(q) : q[i].kind = "submitCall"}

\* the pending timers that will hide the toast
PendingHides(q) == {i \in 1..Len(q) : q[i].kind = "toastHide"}

\* this step delivers a submit event
SubmitStep == nSubmits' = nSubmits + 1

\* this step is the rest of a submit handler, run when its call has settled
SettleStep == Cardinality(PendingCalls(timers')) < Cardinality(PendingCalls(timers))

SomeFieldEmpty(f) == \E k \in DOMAIN f : f[k] = <<>>

\* one or more characters that are neither a space nor '@', then '@', then one or
\* more such characters, then '.', then one or more such characters
MatchesAddressPattern(e) ==
    \E i, j \in 1..Len(e) :
        /\ 1 < i /\ i + 1 < j /\ j < Len(e)
        /\ e[i] = "@"
        /\ e[j] = "."
        /\ \A k \in (1..Len(e)) \ {i, j} : e[k] # " " /\ e[k] # "@"

\* C1: once a submit has been delivered and no submission is pending any more,
\* the submit button is enabled and shows the label it had before the first
\* submission.
C1_ButtonRestoredWhenAllSettled ==
    (nSubmits > 0 /\ PendingCalls(timers) = {}) =>
        (~btnDisabled /\ btnHTML = OriginalLabel)

\* C2: a valid submit disables the button under the 'Sending...' label, shows no
\* toast yet and starts the call; the success or failure toast is shown only by
\* the task that runs when a call has settled, which shows it before it sets the
\* button back to the label taken at the submit and enables it, and sets the
\* timer that hides the toast; the toast is hidden only by such a timer; a
\* pending call is eventually settled and a shown toast is eventually hidden.
C2_SubmitStatesInOrder ==
    /\ [][/\ (SubmitStep /\ ~SomeFieldEmpty(fields) /\ MatchesAddressPattern(fields.email)) =>
                /\ btnDisabled' /\ btnHTML' = SendingLabel
                /\ UNCHANGED <<toastShown, toastMessage, toastType, fields>>
                /\ timers' = Append(timers, [kind |-> "submitCall",
                                             remaining |-> 1500, arg |-> btnHTML])
          /\ (toastMessage' \in {MsgSuccess, MsgFailed} /\ toastMessage' # toastMessage)
                => SettleStep
          /\ SettleStep =>
                /\ IsDue(timers, NextDue(timers))
                /\ toastShown' /\ toastMessage' \in {MsgSuccess, MsgFailed}
                /\ toastType' = (IF toastMessage' = MsgSuccess THEN "success" ELSE "error")
                /\ ~btnDisabled' /\ btnHTML' = timers[NextDue(timers)].arg
                /\ \E i \in PendingHides(timers') : timers'[i].remaining = 3000
                /\ \E i, j \in 1..Len(effects') :
                      /\ i < j
                      /\ effects'[i] = "showToast"
                      /\ effects'[j] = "restoreLabel"
                      /\ effects'[Len(effects')] = "enable"
          /\ (toastShown /\ ~toastShown') =>
                Cardinality(PendingHides(timers')) < Cardinality(PendingHides(timers))
         ]_vars
    /\ (PendingCalls(timers) # {}) ~> (PendingCalls(timers) = {} /\ ~btnDisabled)
    /\ toastShown ~> ~toastShown

\* C2's case: a valid submit went all the way: the call resolved, the success
\* toast was shown and has been hidden by its timer, the button is back.
C2_Witness ==
    /\ nSubmits = 1
    /\ lastTask.op = "toastHide"
    /\ toastMessage = MsgSuccess /\ ~toastShown
    /\ ~btnDisabled /\ btnHTML = OriginalLabel
    /\ timers = <<>>

\* C3: a submit with an empty field shows the error toast 'Please fill in all
\* fields', also when the email is invalid as well, and leaves the button, its
\* label and the fields as they were and starts no call; a form that was idle
\* stays with its button enabled.
C3_EmptyFieldRejected ==
    [][(SubmitStep /\ SomeFieldEmpty(fields)) =>
          /\ toastShown' /\ toastMessage' = MsgFillAll /\ toastType' = "error"
          /\ UNCHANGED <<btnHTML, btnDisabled, fields>>
          /\ PendingCalls(timers') = PendingCalls(timers)
          /\ (PendingCalls(timers) = {} => ~btnDisabled')]_vars

\* C3's case: a submit with the subject empty and an invalid email was rejected
\* with the fill-in-all-fields toast.
C3_Witness ==
    /\ lastTask.op = "submit"
    /\ fields.subject = <<>> /\ fields.name # <<>> /\ fields.message # <<>>
    /\ fields.email = <<"a", "@", "a">>
    /\ toastShown /\ toastMessage = MsgFillAll
    /\ ~btnDisabled /\ btnHTML = OriginalLabel

\* C4: a submit with all four fields non-empty and an email that does not match
\* the address pattern shows the error toast 'Please enter a valid email
\* address', a message of its own, and leaves the button, its label and the
\* fields as they were and starts no call.
C4_InvalidEmailRejected ==
    [][(SubmitStep /\ ~SomeFieldEmpty(fields) /\ ~MatchesAddressPattern(fields.email)) =>
          /\ toastShown' /\ toastMessage' = MsgInvalidEmail /\ toastType' = "error"
          /\ MsgInvalidEmail # MsgFillAll
          /\ UNCHANGED <<btnHTML, btnDisabled, fields>>
          /\ PendingCalls(timers') = PendingCalls(timers)
          /\ (PendingCalls(timers) = {} => ~btnDisabled')]_vars

\* C4's case: a submit with every field filled and an email without a dot after
\* the '@' was rejected with the invalid-email toast.
C4_Witness ==
    /\ lastTask.op = "submit"
    /\ ~SomeFieldEmpty(fields)
    /\ fields.email = <<"a", "@", "a">>
    /\ toastShown /\ toastMessage = MsgInvalidEmail
    /\ ~btnDisabled /\ btnHTML = OriginalLabel

\* C5: when the call fails, the handler shows the error toast 'Failed to send
\* message. Please try again.' and not the success toast, keeps the fields and
\* sets the button back and enables it; the fields are reset only by the task of
\* a call that succeeded.
C5_FailureKeepsInput ==
    [][/\ (SettleStep /\ ~lastTask'.ok) =>
             /\ toastShown' /\ toastMessage' = MsgFailed /\ toastType' = "error"
             /\ fields' = fields
             /\ ~btnDisabled' /\ btnHTML' = timers[NextDue(timers)].arg
       /\ (fields' = EmptyForm /\ fields # EmptyForm /\ lastTask'.op # "input") =>
             (SettleStep /\ lastTask'.ok /\ toastMessage' = MsgSuccess)]_vars

\* C5's case: the call of a filled-in form failed: the failure toast is shown,
\* the input is still there and the button is back.
C5_Witness ==
    /\ lastTask = [op |-> "settle", ok |-> FALSE]
    /\ toastShown /\ toastMessage = MsgFailed
    /\ ~SomeFieldEmpty(fields)
    /\ ~btnDisabled /\ btnHTML = OriginalLabel

-----------------------------------------------------------------------------
(* Properties of the theme module *)

Themes == {THEME_LIGHT, THEME_DARK}

\* the system preference as the page can see it
SystemPreference == IF systemDark THEN THEME_DARK ELSE THEME_LIGHT

\* this step is a toggleTheme call
ToggleStep == nToggles' = nToggles + 1

\* this step is the page's initialization
LoadStep == pageState = "loading" /\ pageState' = "ready"

\* this step is a ThemeManager.getCurrentTheme() call whose result is observed
GetStep == pageState = "ready" /\ pageState' = "ready" /\ lastGet' # lastGet

\* C6: from any state whose applied theme is light or dark, a toggle applies the
\* other of the two themes (so two toggles in a row give back the original one)
\* and leaves the persisted value equal to the theme it applied.
C6_ToggleTwiceRestores ==
    [][(ToggleStep /\ dataTheme \in Themes) =>
          /\ dataTheme' \in Themes \ {dataTheme}
          /\ storedTheme' = dataTheme']_vars

\* C7: with 'dark' persisted, a page load applies dark and getCurrentTheme
\* returns dark whatever the system preference; with the key cleared, a page load
\* applies the system preference and getCurrentTheme returns it.
C7_RoundTripAcrossReload ==
    [][/\ (LoadStep /\ storedTheme = THEME_DARK) =>
             (dataTheme' = THEME_DARK /\ metaContent' = "#0f172a")
       /\ (GetStep /\ storedTheme = THEME_DARK) => lastGet' = THEME_DARK
       /\ (LoadStep /\ storageAvailable /\ storedTheme = NoValue) =>
             dataTheme' = SystemPreference
       /\ (GetStep /\ storageAvailable /\ storedTheme = NoValue) =>
             lastGet' = SystemPreference]_vars

\* C7's case: dark was persisted, the page was loaded again under a light system
\* preference, and dark is what was applied and what getCurrentTheme returned.
C7_Witness ==
    /\ nLoads >= 2
    /\ pageState = "ready"
    /\ storedTheme = THEME_DARK
    /\ ~systemDark
    /\ dataTheme = THEME_DARK
    /\ lastGet = THEME_DARK

\* C8: getCurrentTheme returns the persisted value if one is present, otherwise
\* dark if the system prefers dark, otherwise light (also without matchMedia).
C8_GetCurrentThemePriority ==
    [][GetStep =>
          lastGet' = IF storedTheme # NoValue THEN storedTheme
                     ELSE IF systemDark THEN THEME_DARK
                     ELSE THEME_LIGHT]_vars

\* C9: with storage unavailable, initialization still applies a theme and does
\* not fail, and a toggle still switches the applied theme, dispatches
\* themeChanged and schedules the removal of the 'theme-transition' class.
C9_DegradesWithoutStorage ==
    [][~storageAvailable =>
          /\ LoadStep => (dataTheme' \in Themes /\ ~lastThrew')
          /\ ToggleStep =>
                /\ dataTheme' \in Themes /\ dataTheme' # dataTheme
                /\ themeEvents' = Append(themeEvents, dataTheme')
                /\ \E i \in 1..Len(timers') : timers'[i].kind = "removeTransition"
                /\ ~lastThrew']_vars

\* C10: once the page is initialized, whenever a persisted value exists the
\* applied data-theme equals it and the meta theme-color is the colour of it.
C10_AppliedMatchesPersisted ==
    (pageState = "ready" /\ storedTheme # NoValue) =>
        /\ dataTheme = storedTheme
        /\ metaContent = (IF storedTheme = THEME_DARK THEN "#0f172a" ELSE "#ffffff")

\* C10's case: after toggles the persisted theme is light while the system
\* prefers dark, and the page is initialized.
C10_Witness ==
    /\ pageState = "ready"
    /\ nToggles >= 2
    /\ storedTheme = THEME_LIGHT
    /\ systemDark
    /\ listenerRegistered
    /\ dataTheme = THEME_LIGHT

\* this step is a change of the system colour scheme
SystemStep == systemDark' # systemDark

\* C11: the persisted value is absent, 'light' or 'dark' and the data-theme is
\* absent, 'light' or 'dark' in every state; with storage readable the
\* data-theme of an initialized page is 'light' or 'dark'; every toggle, also one
\* of a document whose data-theme is not set, applies 'light' or 'dark' and
\* persists nothing else.
C11_OnlyLightOrDark ==
    /\ [](/\ storedTheme \in Themes \cup {NoValue}
          /\ dataTheme \in Themes \cup {NoValue}
          /\ (pageState = "ready" /\ storageAvailable) => dataTheme \in Themes)
    /\ [][ToggleStep =>
             /\ dataTheme' \in Themes
             /\ storedTheme' \in (IF storageAvailable THEN Themes ELSE {NoValue})]_vars

\* C11's case: a toggle of a document whose data-theme was not set applied dark.
C11_Witness ==
    /\ markupTheme = NoValue
    /\ ~storageAvailable
    /\ nLoads = 1 /\ nToggles = 1
    /\ dataTheme = THEME_DARK

\* C12: initialization and the system colour-scheme listener leave the stored
\* key as it is; only toggleTheme and saveTheme write it, and once set it is
\* removed by nothing but the user clearing the storage.
C12_OnlyToggleWrites ==
    [][/\ (LoadStep \/ SystemStep) => storedTheme' = storedTheme
       /\ storedTheme' # storedTheme => (ToggleStep \/ ApiSaveTheme \/ ClearStorage)
       /\ (storedTheme # NoValue /\ storedTheme' = NoValue) => ClearStorage]_vars

\* C12's case: with nothing stored, the page was loaded twice and follows a dark
\* system preference; the key is still absent.
C12_Witness ==
    /\ storageAvailable /\ storedTheme = NoValue
    /\ nLoads >= 2 /\ nToggles = 0
    /\ pageState = "ready" /\ listenerRegistered
    /\ systemDark /\ dataTheme = THEME_DARK

\* C13: every toggleTheme call dispatches exactly one themeChanged event whose
\* detail.theme is the theme it applied and persisted; no other step dispatches
\* one.
C13_OneEventPerToggle ==
    [][/\ ToggleStep =>
             /\ themeEvents' = Append(themeEvents, dataTheme')
             /\ storedTheme' = dataTheme'
       /\ ~ToggleStep => themeEvents' = themeEvents]_vars

\* C19: a system colour-scheme change leaves the data-theme alone while a
\* preference is stored, so after a toggle that stored one, and sets it to the
\* new system value while none is stored.
C19_SystemChangeOnlyWithoutPreference ==
    [][SystemStep =>
          /\ storedTheme # NoValue => dataTheme' = dataTheme
          /\ storedTheme = NoValue =>
                dataTheme' = (IF systemDark' THEN THEME_DARK ELSE THEME_LIGHT)]_vars

\* C20: at most one timer that will hide the toast is pending, whatever
\* showToast calls were made and however close together.
C20_AtMostOnePendingHide == Cardinality(PendingHides(timers)) <= 1

-----------------------------------------------------------------------------
(* Properties of the scroll handlers, the progress bar and the sections *)

\* the callbacks of one kind requested for the next frame
PendingOf(callback) ==
    Cardinality({i \in 1..Len(rafCallbacks) : rafCallbacks[i] = callback})

\* this step delivers a scroll event to the listeners of theme.js
ScrollStep == scrollsSinceFrame' = scrollsSinceFrame + 1

\* C14: for the navbar and for the parallax handler at most one animation
\* frame callback is pending, and one is pending exactly while the handler's
\* ticking flag is set; a scroll event that finds an update pending requests
\* nothing; a frame that follows one or more scroll events runs each attached
\* update exactly once and clears both flags, and the scroll event after it
\* requests a callback again.
C14_OneUpdatePerFrame ==
    /\ [](/\ PendingOf("updateNavbar") <= 1
          /\ PendingOf("updateParallax") <= 1
          /\ navTicking <=> PendingOf("updateNavbar") = 1
          /\ parTicking <=> PendingOf("updateParallax") = 1
          /\ lastFrame.nav = (IF lastFrame.scrolls > 0 THEN 1 ELSE 0)
          /\ lastFrame.par = (IF lastFrame.scrolls > 0 /\ parallaxActive THEN 1 ELSE 0))
    /\ [][AnimationFrame => ~navTicking' /\ ~parTicking' /\ rafCallbacks' = <<>>]_vars
    /\ [][ScrollStep =>
             /\ navTicking' /\ PendingOf("updateNavbar")' = 1
             /\ parallaxActive => (parTicking' /\ PendingOf("updateParallax")' = 1)
             /\ navTicking => rafCallbacks' = rafCallbacks]_vars

\* C14's case: a frame ran one navbar and one parallax update after several
\* scroll events, and a scroll event after it has requested a callback again.
C14_Witness ==
    /\ lastFrame.scrolls = MaxScrollsPerFrame
    /\ lastFrame.nav = 1 /\ lastFrame.par = 1
    /\ scrollsSinceFrame >= 2
    /\ navTicking /\ parTicking
    /\ Len(rafCallbacks) = 2

\* C15: a burst of BurstSize scroll events inside one frame interval produces
\* exactly one progress update, open or closed as the throttle may be when the
\* burst begins.
C15_OneUpdatePerBurst == burstCount = BurstSize => burstUpdates = 1

\* C16: the scroll percentage the listener computes, and the width the bar
\* carries, are numbers between 0 and 100.
C16_FractionInRange ==
    /\ scrollPercent # <<>> =>
          /\ IsNumber(scrollPercent)
          /\ 0 <= scrollPercent[1] /\ scrollPercent[1] <= 100 * scrollPercent[2]
    /\ barWidth # <<>> =>
          /\ IsNumber(barWidth)
          /\ 0 <= barWidth[1] /\ barWidth[1] <= 100 * barWidth[2]

\* C17: at most one navigation link carries 'active'.
C17_AtMostOneActive == Cardinality(activeLinks) <= 1

\* C17's case: one callback reported two different sections as intersecting,
\* and one link is active.
C17_Witness ==
    /\ \E i, j \in 1..Len(lastEntries) :
          /\ lastEntries[i].isIntersecting /\ lastEntries[j].isIntersecting
          /\ lastEntries[i].target # lastEntries[j].target
    /\ Cardinality(activeLinks) = 1

\* the sections the middle line of the viewport crosses
IntersectingNow ==
    {Sections[i] : i \in {j \in 1..Len(Sections) : IsIntersecting(Sections[j], pageYOffset)}}

\* twice the distance of a section's middle from the middle line
Distance(s) ==
    LET d == SectionBox(s).top + SectionBox(s).bottom - 2 * CentreLine(pageYOffset)
    IN  IF d < 0 THEN 0 - d ELSE d

\* the observer has delivered everything there is to deliver
ObserverSettled ==
    queuedEntries = <<>> /\ Entries(pageYOffset, notified) = <<>>

\* C18: once the observer has delivered its entries, an active link names a
\* section that intersects and is the nearest to the middle among those that
\* do, and no link is active when no section intersects.
C18_ActiveIsNearestIntersecting ==
    ObserverSettled =>
        /\ \A link \in activeLinks :
              \E s \in IntersectingNow :
                  /\ link = Href(s)
                  /\ \A t \in IntersectingNow : Distance(s) <= Distance(t)
        /\ IntersectingNow = {} => activeLinks = {}

-----------------------------------------------------------------------------
(* Further properties of the toast *)

\* this step hides the toast
HideStep == toastShown /\ ~toastShown'

\* C21: when the toast is hidden, the timer of the most recent showToast call
\* has run its toastDuration: no hide timer set by a later call is still
\* counting down.
C21_HiddenOnlyByLatestTimer ==
    [][HideStep => \A i \in PendingHides(timers') : timers'[i].remaining <= 0]_vars

-----------------------------------------------------------------------------
(* Further properties of the scroll progress bar and of throttle *)

\* scrolling has stopped: the position and the height are those of the latest
\* scroll event, and no timer is pending
ScrollSettled ==
    /\ timers = <<>>
    /\ lastDelivered = <<pageYOffset, docHeight>>

\* C23: once scrolling has stopped and every timer has fired, the width of the
\* progress bar is the percentage of the final scroll position.
C23_FinalPositionShown ==
    (ScrollSettled /\ docHeight # 0) =>
        barWidth = ScrollPercentOf(pageYOffset, docHeight)

\* the timers that will close the throttle window
ThrottleTimers(q) == {i \in 1..Len(q) : q[i].kind = "throttleEnd"}

\* this step is a call of the throttled function
CallStep == burstCount' = burstCount + 1

\* C24: a call made while no window is open runs the wrapped function at once
\* and opens a window of limit milliseconds; a call made while a window is
\* open runs nothing and sets no timer; a window is open exactly while its one
\* timer is pending, and every window closes.
C24_ThrottleWindow ==
    /\ [](/\ inThrottle <=> Cardinality(ThrottleTimers(timers)) = 1
          /\ Cardinality(ThrottleTimers(timers)) <= 1
          /\ \A i \in ThrottleTimers(timers) : timers[i].remaining <= ScrollThrottleMs)
    /\ [][CallStep =>
             IF ~inThrottle
             THEN /\ burstUpdates' = burstUpdates + 1
                  /\ scrollPercent' = ScrollPercentOf(pageYOffset', docHeight)
                  /\ inThrottle'
                  /\ timers' = Append(timers, Timer("throttleEnd", ScrollThrottleMs, NoValue))
             ELSE /\ burstUpdates' = burstUpdates
                  /\ UNCHANGED <<scrollPercent, barWidth, inThrottle, timers>>]_vars
    /\ [][ThrottleEnd => ~inThrottle' /\ timers' = <<>>]_vars
    /\ (inThrottle ~> ~inThrottle)

\* C24's case: in one burst the first call ran the function and a later call,
\* made while the window was open, was dropped.
C24_Witness ==
    /\ inThrottle
    /\ burstCount >= 2 /\ burstUpdates = 1
    /\ lastDelivered # <<>> /\ lastDelivered[2] # 0
    /\ scrollPercent # ScrollPercentOf(lastDelivered[1], lastDelivered[2])

-----------------------------------------------------------------------------
(* Properties of the project filters *)

\* an item is displayed unless its display is none
Displayed(item) == itemDisplay[item] # "none"

\* C22: once every timer has fired, an item is displayed exactly when the
\* filter clicked last is 'all' or the item's category, and the button clicked
\* last is the only one carrying 'active'.
C22_FilterSettles ==
    (timers = <<>> /\ lastFilter # NoValue) =>
        /\ \A item \in Items : Displayed(item) <=> Matches(lastFilter, item)
        /\ activeButtons = {lastFilter}

-----------------------------------------------------------------------------
(* Properties of debounce *)

\* the pending timers of the debounced function
LaterTimers(q) == {i \in 1..Len(q) : q[i].kind = "later"}

\* this step is a call of the debounced function
DebounceCallStep == Len(debCalls') = Len(debCalls) + 1

\* this step invokes the wrapped function
InvokeStep == debInvoked' # debInvoked

\* C25: at most one timer is pending; a call invokes nothing and leaves one
\* timer, set to the full wait and carrying the call's arguments, so nothing
\* is invoked while calls arrive less than wait apart; the wrapped function is
\* invoked when that timer has run out, once, with the arguments of the last
\* call, and no timer is left; after every call an invocation follows.
C25_DebounceLastCall ==
    /\ [](Cardinality(LaterTimers(timers)) <= 1)
    /\ [][DebounceCallStep =>
             /\ debInvoked' = debInvoked
             /\ timers' = <<Timer("later", debounceDelay,
                                  [id |-> Len(debCalls'), args |-> debCalls'[Len(debCalls')]])>>]_vars
    /\ [][InvokeStep =>
             /\ \E i \in LaterTimers(timers) : timers[i].remaining <= 0
             /\ debInvoked' = Append(debInvoked, debCalls[Len(debCalls)])
             /\ timers' = <<>>]_vars
    /\ (timers # <<>>) ~> (/\ timers = <<>>
                           /\ debInvoked # <<>>
                           /\ debInvoked[Len(debInvoked)] = debCalls[Len(debCalls)])

\* C25's case: two calls with different arguments came less than wait apart;
\* the function was invoked once, with the arguments of the second.
C25_Witness ==
    /\ Len(debCalls) = 2
    /\ debCalls[1] # debCalls[2]
    /\ debInvoked = <<debCalls[2]>>
    /\ timers = <<>>

-----------------------------------------------------------------------------
(* Properties of the typing animation *)

\* the role being typed or deleted
CurrentRole == roles[roleIndex + 1]

\* the pending timers of the typing animation
TypeTimers(q) == {i \in 1..Len(q) : q[i].kind = "type"}

\* C26: charIndex lies between 0 and the length of the current role, roleIndex
\* is an index of roles, the text shown is the first charIndex characters of
\* the current role, and exactly one timer of the next step is pending.
C26_TypingState ==
    /\ roleIndex \in 0..(Len(roles) - 1)
    /\ charIndex \in 0..Len(CurrentRole)
    /\ typingText = SubSeq(CurrentRole, 1, charIndex)
    /\ Cardinality(TypeTimers(timers)) = 1

\* C26's case: the second role is being deleted and five characters are left.
C26_Witness ==
    /\ roleIndex = 1
    /\ isDeleting
    /\ charIndex = 5
    /\ typingText = <<"P", "H", "P", " ", "&">>

\* C27: a step that types adds one character of the current role, a step that
\* deletes removes one; deleting begins with the step that completes the role
\* and with no other; the role changes with the step that empties the text and
\* with no other, to the next role of the list, the first after the last; and
\* every role is shown in full again and again.
C27_RolesInOrder ==
    /\ [][type =>
             /\ ~isDeleting =>
                   /\ typingText' = SubSeq(CurrentRole, 1, Len(typingText) + 1)
                   /\ Len(typingText') = Len(typingText) + 1
             /\ isDeleting =>
                   /\ typingText' = SubSeq(CurrentRole, 1, Len(typingText) - 1)
                   /\ Len(typingText') = Len(typingText) - 1
             /\ (~isDeleting /\ isDeleting') <=> (~isDeleting /\ typingText' = CurrentRole)
             /\ (roleIndex' # roleIndex) <=> (isDeleting /\ typingText' = <<>>)
             /\ roleIndex' # roleIndex =>
                   /\ roleIndex' = (IF roleIndex = Len(roles) - 1 THEN 0 ELSE roleIndex + 1)
                   /\ ~isDeleting']_vars
    /\ \A r \in 1..Len(roles) : []<>(roleIndex = r - 1 /\ typingText = roles[r])

\* C27's case: the last role of the list is shown in full and is about to be
\* deleted.
C27_Witness ==
    /\ roleIndex = Len(roles) - 1
    /\ typingText = roles[Len(roles)]
    /\ isDeleting

-----------------------------------------------------------------------------
(* Properties of the counter *)

\* the frame loop is running
CounterRunning == counterRaf # <<>>

\* C28: the frame loop stops within the frames of counterDuration, with the
\* text equal to the target; while it runs the value shown does not decrease
\* and does not exceed the target; the counter is animated at most once.
C28_CounterTerminates ==
    /\ [](/\ nFrames <= CounterFrames
          /\ (nAnimations >= 1 /\ ~CounterRunning) => counterText = parseInt(counterAttr)
          /\ CounterRunning =>
                /\ ~counterText.nan
                /\ counterText.v <= parseInt(counterAttr).v
          /\ nAnimations <= 1)
    /\ [][(CounterRunning /\ CounterRunning') => counterText'.v >= counterText.v]_vars

====
